---------------------------- MODULE Spec2Model ----------------------------
(***************************************************************************)
(* Model of the two broker-export converters:                              *)
(*   convert_bunq.py        (bunq interest export  -> income CSV)          *)
(*   convert_trading212.py  (Trading 212 export    -> trades + income CSV) *)
(*                                                                         *)
(* Texts are TLA+ strings, handled with Len, SubSeq and \o.  A Decimal is  *)
(* the triple Python's decimal module keeps: sign, coefficient digits,     *)
(* exponent.  Coefficients are digit strings, so the 28-digit context      *)
(* precision of the division is modelled at its real width.                *)
(***************************************************************************)
EXTENDS Integers, Sequences, FiniteSets, TLC

(***************************************************************************)
(* Text helpers (str.strip, str.split, str.startswith, "in", replace)      *)
(***************************************************************************)
Char(s, i) == SubSeq(s, i, i)

IsDigit(c) == c \in {"0", "1", "2", "3", "4", "5", "6", "7", "8", "9"}

DigitVal(c) ==
  CASE c = "0" -> 0 [] c = "1" -> 1 [] c = "2" -> 2 [] c = "3" -> 3
    [] c = "4" -> 4 [] c = "5" -> 5 [] c = "6" -> 6 [] c = "7" -> 7
    [] c = "8" -> 8 [] c = "9" -> 9

DigitChar(n) == Char("0123456789", n + 1)

AllDigits(s) == \A i \in 1..Len(s) : IsDigit(Char(s, i))

\* The whitespace of the model's alphabet is the blank.
IsSpace(c) == c = " "

RECURSIVE LStrip(_)
LStrip(s) ==
  IF Len(s) > 0 /\ IsSpace(Char(s, 1)) THEN LStrip(SubSeq(s, 2, Len(s))) ELSE s

RECURSIVE RStrip(_)
RStrip(s) ==
  IF Len(s) > 0 /\ IsSpace(Char(s, Len(s)))
    THEN RStrip(SubSeq(s, 1, Len(s) - 1)) ELSE s

\* str.strip()
Strip(s) == RStrip(LStrip(s))

\* str.startswith(p)
StartsWith(s, p) == Len(s) >= Len(p) /\ SubSeq(s, 1, Len(p)) = p

\* p in s
Contains(s, p) ==
  \E i \in 1..(Len(s) - Len(p) + 1) : SubSeq(s, i, i + Len(p) - 1) = p

\* Index of the first c in s at or after i, 0 when there is none.
RECURSIVE Find(_, _, _)
Find(s, c, i) ==
  IF i > Len(s) THEN 0
  ELSE IF Char(s, i) = c THEN i
  ELSE Find(s, c, i + 1)

\* str.replace(c, '') for a single character c
RECURSIVE RemoveChar(_, _)
RemoveChar(s, c) ==
  IF s = "" THEN ""
  ELSE IF Char(s, 1) = c THEN RemoveChar(SubSeq(s, 2, Len(s)), c)
  ELSE Char(s, 1) \o RemoveChar(SubSeq(s, 2, Len(s)), c)

\* str.split()[-1]: the last whitespace-delimited token ("" stands for the
\* IndexError of an all-blank text, which no caller reaches).
RECURSIVE LastTokenFrom(_, _)
LastTokenFrom(s, i) ==
  IF i = 0 \/ IsSpace(Char(s, i)) THEN SubSeq(s, i + 1, Len(s))
  ELSE LastTokenFrom(s, i - 1)

LastToken(s) == LastTokenFrom(RStrip(s), Len(RStrip(s)))

\* int(text) of a short digit string
RECURSIVE StrNat(_)
StrNat(s) ==
  IF s = "" THEN 0
  ELSE StrNat(SubSeq(s, 1, Len(s) - 1)) * 10 + DigitVal(Char(s, Len(s)))

\* str(n) of a natural number
RECURSIVE NatStr(_)
NatStr(n) == IF n < 10 THEN DigitChar(n) ELSE NatStr(n \div 10) \o DigitChar(n % 10)

\* n zeros
RECURSIVE Zeros(_)
Zeros(n) == IF n <= 0 THEN "" ELSE "0" \o Zeros(n - 1)

\* str(int(digits)) on a digit string of any length: leading zeros removed
RECURSIVE StripZeros(_)
StripZeros(s) ==
  IF s = "" THEN "0"
  ELSE IF Char(s, 1) = "0" THEN StripZeros(SubSeq(s, 2, Len(s)))
  ELSE s

\* zero-padded decimal rendering of n on at least w places ("%0wd")
Pad(n, w) == Zeros(w - Len(NatStr(n))) \o NatStr(n)

(***************************************************************************)
(* decimal.Decimal: construction from text, +, -, *, / and str under the   *)
(* default context (precision Prec, ROUND_HALF_EVEN, traps enabled).       *)
(* The alphabet of the model's texts has no letters of "NaN"/"Infinity",   *)
(* so every Decimal here is finite.                                        *)
(***************************************************************************)
\* decimal.getcontext().prec, the default context the converter runs under
Prec == 28

RECURSIVE Pow10(_)
Pow10(n) == IF n <= 0 THEN 1 ELSE 10 * Pow10(n - 1)

Min(a, b) == IF a <= b THEN a ELSE b

ExpAt(t) == IF Find(t, "E", 1) # 0 THEN Find(t, "E", 1) ELSE Find(t, "e", 1)
Mantissa(t) == IF ExpAt(t) = 0 THEN t ELSE SubSeq(t, 1, ExpAt(t) - 1)
ExpText(t) == IF ExpAt(t) = 0 THEN "" ELSE SubSeq(t, ExpAt(t) + 1, Len(t))
HasSign(t) == Len(t) > 0 /\ Char(t, 1) \in {"+", "-"}
Unsigned(t) == IF HasSign(t) THEN SubSeq(t, 2, Len(t)) ELSE t
IntPart(m) ==
  LET u == Unsigned(m)
      dot == Find(u, ".", 1)
  IN  IF dot = 0 THEN u ELSE SubSeq(u, 1, dot - 1)
FracPart(m) ==
  LET u == Unsigned(m)
      dot == Find(u, ".", 1)
  IN  IF dot = 0 THEN "" ELSE SubSeq(u, dot + 1, Len(u))

\* Decimal(text) succeeds: [sign] digits [. digits] [E [sign] digits] with
\* at least one digit in the mantissa; anything else raises InvalidOperation.
IsDecimalText(s) ==
  LET t == Strip(s)
      m == Mantissa(t)
      x == ExpText(t)
  IN  /\ AllDigits(IntPart(m))
      /\ AllDigits(FracPart(m))
      /\ Len(IntPart(m)) + Len(FracPart(m)) > 0
      /\ ExpAt(t) # 0 => (Len(Unsigned(x)) > 0 /\ AllDigits(Unsigned(x)))

\* Decimal(text), for a text that IsDecimalText
DecimalOf(s) ==
  LET t == Strip(s)
      m == Mantissa(t)
      x == ExpText(t)
      e == IF HasSign(x) /\ Char(x, 1) = "-"
             THEN 0 - StrNat(Unsigned(x)) ELSE StrNat(Unsigned(x))
  IN  [sign |-> IF HasSign(m) /\ Char(m, 1) = "-" THEN 1 ELSE 0,
       int  |-> StripZeros(IntPart(m) \o FracPart(m)),
       exp  |-> e - Len(FracPart(m))]

IsZero(d) == d.int = "0"

\* The signed coefficient of d scaled to exponent e (e <= d.exp).  The
\* operands of + and * here have few digits, far from Prec, so the context
\* rounding of their results is the identity.
Scaled(d, e) ==
  (IF d.sign = 1 THEN -1 ELSE 1) * StrNat(d.int) * Pow10(d.exp - e)

FromInt(n, sign0, e) ==
  [sign |-> IF n < 0 THEN 1 ELSE IF n > 0 THEN 0 ELSE sign0,
   int  |-> NatStr(IF n < 0 THEN 0 - n ELSE n),
   exp  |-> e]

\* Decimal.__add__
DecAdd(a, b) ==
  LET e == Min(a.exp, b.exp)
  IN  FromInt(Scaled(a, e) + Scaled(b, e),
              IF IsZero(a) /\ IsZero(b) THEN Min(a.sign, b.sign) ELSE 0, e)

\* Decimal.__sub__ is self + other.copy_negate()
DecSub(a, b) == DecAdd(a, [b EXCEPT !.sign = 1 - b.sign])

\* Decimal.__mul__
DecMul(a, b) ==
  [sign |-> IF a.sign = b.sign THEN 0 ELSE 1,
   int  |-> NatStr(StrNat(a.int) * StrNat(b.int)),
   exp  |-> a.exp + b.exp]

\* divmod(int(digits), d) by long division, for a digit string of any
\* length and a small divisor: quotient digits and remainder.
RECURSIVE LongDivFrom(_, _, _, _, _)
LongDivFrom(s, d, i, q, r) ==
  IF i > Len(s) THEN [q |-> StripZeros(q), r |-> r]
  ELSE LET cur == r * 10 + DigitVal(Char(s, i))
       IN  LongDivFrom(s, d, i + 1, q \o DigitChar(cur \div d), cur % d)

LongDiv(s, d) == LongDivFrom(s, d, 1, "", 0)

\* digits + 1
RECURSIVE IncStr(_)
IncStr(s) ==
  IF s = "" THEN "1"
  ELSE IF Char(s, Len(s)) = "9" THEN IncStr(SubSeq(s, 1, Len(s) - 1)) \o "0"
  ELSE SubSeq(s, 1, Len(s) - 1) \o DigitChar(DigitVal(Char(s, Len(s))) + 1)

\* Decimal._fix with ROUND_HALF_EVEN: a coefficient longer than Prec digits
\* is rounded to Prec digits.
DecFix(d) ==
  IF Len(d.int) <= Prec THEN d
  ELSE LET kept    == SubSeq(d.int, 1, Prec)
           dropped == SubSeq(d.int, Prec + 1, Len(d.int))
           half    == dropped = "5" \o Zeros(Len(dropped) - 1)
           up      == /\ DigitVal(Char(dropped, 1)) >= 5
                      /\ ~(half /\ DigitVal(Char(kept, Prec)) % 2 = 0)
           coeff   == IF up THEN IncStr(kept) ELSE kept
           e       == d.exp + Len(dropped)
       IN  IF Len(coeff) > Prec
             THEN [d EXCEPT !.int = SubSeq(coeff, 1, Prec), !.exp = e + 1]
             ELSE [d EXCEPT !.int = coeff, !.exp = e]

\* An exact quotient is brought as near the ideal exponent as its trailing
\* zeros allow.
RECURSIVE TowardIdeal(_, _, _)
TowardIdeal(coeff, e, ideal) ==
  IF e < ideal /\ Len(coeff) > 1 /\ Char(coeff, Len(coeff)) = "0"
    THEN TowardIdeal(SubSeq(coeff, 1, Len(coeff) - 1), e + 1, ideal)
    ELSE [int |-> coeff, exp |-> e]

\* Decimal.__truediv__ raises (DivisionByZero, or InvalidOperation for 0/0)
DivRaises(a, b) == IsZero(b)

\* Decimal.__truediv__, for a divisor that is not zero
DecDiv(a, b) ==
  LET sign == IF a.sign = b.sign THEN 0 ELSE 1
  IN  IF IsZero(a) THEN [sign |-> sign, int |-> "0", exp |-> a.exp - b.exp]
      ELSE
        LET shift == Len(b.int) - Len(a.int) + Prec + 1
            qr    == LongDiv(a.int \o Zeros(shift), StrNat(b.int))
            e     == a.exp - b.exp - shift
            last  == Char(qr.q, Len(qr.q))
            \* inexact: a sticky digit keeps the rounding correct
            stuck == IF last \in {"0", "5"}
                       THEN SubSeq(qr.q, 1, Len(qr.q) - 1)
                            \o DigitChar(DigitVal(last) + 1)
                       ELSE qr.q
            res   == IF qr.r # 0 THEN [int |-> stuck, exp |-> e]
                     ELSE TowardIdeal(qr.q, e, a.exp - b.exp)
        IN  DecFix([sign |-> sign, int |-> res.int, exp |-> res.exp])

\* "%+d"
SignedStr(n) == IF n < 0 THEN "-" \o NatStr(0 - n) ELSE "+" \o NatStr(n)

\* Decimal.__str__: plain notation, or scientific when the exponent is
\* positive or the value has more than six leading fractional zeros.
DecStr(d) ==
  LET leftdigits == d.exp + Len(d.int)
      dotplace   == IF d.exp <= 0 /\ leftdigits > -6 THEN leftdigits ELSE 1
      intpart    == IF dotplace <= 0 THEN "0"
                    ELSE IF dotplace >= Len(d.int)
                      THEN d.int \o Zeros(dotplace - Len(d.int))
                    ELSE SubSeq(d.int, 1, dotplace)
      fracpart   == IF dotplace <= 0 THEN "." \o Zeros(0 - dotplace) \o d.int
                    ELSE IF dotplace >= Len(d.int) THEN ""
                    ELSE "." \o SubSeq(d.int, dotplace + 1, Len(d.int))
      exppart    == IF leftdigits = dotplace THEN ""
                    ELSE "E" \o SignedStr(leftdigits - dotplace)
  IN  (IF d.sign = 1 THEN "-" ELSE "") \o intpart \o fracpart \o exppart

(***************************************************************************)
(* datetime.strptime for the three formats the converters use, and         *)
(* isoformat.  A numeric directive takes one or two digits (%Y exactly     *)
(* four) within its range; a blank in the format takes one or more blanks. *)
(***************************************************************************)
\* The three fields of s around two separators, <<>> when s has no two.
Fields3(s, sep) ==
  LET i == Find(s, sep, 1)
      j == IF i = 0 THEN 0 ELSE Find(s, sep, i + 1)
  IN  IF i = 0 \/ j = 0 THEN <<>>
      ELSE <<SubSeq(s, 1, i - 1), SubSeq(s, i + 1, j - 1),
             SubSeq(s, j + 1, Len(s))>>

NumIn(t, lo, hi, minlen, maxlen) ==
  /\ Len(t) \in minlen..maxlen
  /\ AllDigits(t)
  /\ StrNat(t) \in lo..hi

IsLeap(y) == (y % 4 = 0 /\ y % 100 # 0) \/ y % 400 = 0

DaysIn(y, m) ==
  IF m = 2 THEN (IF IsLeap(y) THEN 29 ELSE 28)
  ELSE IF m \in {4, 6, 9, 11} THEN 30 ELSE 31

\* '%Y-%m-%d' matches t and names a calendar day
DateOK(t) ==
  LET f == Fields3(t, "-")
  IN  /\ f # <<>>
      /\ NumIn(f[1], 1, 9999, 4, 4)
      /\ NumIn(f[2], 1, 12, 1, 2)
      /\ NumIn(f[3], 1, DaysIn(StrNat(f[1]), StrNat(f[2])), 1, 2)

DateOf(t) ==
  LET f == Fields3(t, "-")
  IN  [year |-> StrNat(f[1]), month |-> StrNat(f[2]), day |-> StrNat(f[3])]

\* '%H:%M:%S' (frac = FALSE) or '%H:%M:%S.%f' (frac = TRUE) matches t
ClockOK(t, frac) ==
  LET dot == Find(t, ".", 1)
      hms == IF frac /\ dot # 0 THEN SubSeq(t, 1, dot - 1) ELSE t
      us  == IF frac /\ dot # 0 THEN SubSeq(t, dot + 1, Len(t)) ELSE ""
      f   == Fields3(hms, ":")
  IN  /\ frac => (dot # 0 /\ Len(us) \in 1..6 /\ AllDigits(us))
      /\ f # <<>>
      /\ NumIn(f[1], 0, 23, 1, 2)
      /\ NumIn(f[2], 0, 59, 1, 2)
      /\ NumIn(f[3], 0, 59, 1, 2)

ClockOf(t, frac) ==
  LET dot == Find(t, ".", 1)
      hms == IF frac THEN SubSeq(t, 1, dot - 1) ELSE t
      us  == IF frac THEN SubSeq(t, dot + 1, Len(t)) ELSE ""
      f   == Fields3(hms, ":")
  IN  [hour |-> StrNat(f[1]), minute |-> StrNat(f[2]), second |-> StrNat(f[3]),
       microsecond |-> IF frac THEN StrNat(us \o Zeros(6 - Len(us))) ELSE 0]

DatePart(t) == IF Find(t, " ", 1) = 0 THEN t ELSE SubSeq(t, 1, Find(t, " ", 1) - 1)
ClockPart(t) ==
  IF Find(t, " ", 1) = 0 THEN "" ELSE LStrip(SubSeq(t, Find(t, " ", 1), Len(t)))

\* datetime.strptime(t, '%Y-%m-%d %H:%M:%S[.%f]') does not raise ValueError
StrptimeOK(t, frac) ==
  /\ Find(t, " ", 1) # 0
  /\ DateOK(DatePart(t))
  /\ ClockOK(ClockPart(t), frac)

Strptime(t, frac) ==
  [date |-> DateOf(DatePart(t)), clock |-> ClockOf(ClockPart(t), frac)]

Midnight == [hour |-> 0, minute |-> 0, second |-> 0, microsecond |-> 0]

\* date.isoformat()
DateIso(d) == Pad(d.year, 4) \o "-" \o Pad(d.month, 2) \o "-" \o Pad(d.day, 2)

\* datetime.isoformat()
DatetimeIso(dt) ==
  DateIso(dt.date) \o "T" \o Pad(dt.clock.hour, 2) \o ":"
  \o Pad(dt.clock.minute, 2) \o ":" \o Pad(dt.clock.second, 2)
  \o (IF dt.clock.microsecond # 0
        THEN "." \o Pad(dt.clock.microsecond, 6) ELSE "")

\* _parse_datetime: the fractional form first, the whole-second form on
\* ValueError; raises when neither matches.
ParseDatetimeOK(t) == StrptimeOK(t, TRUE) \/ StrptimeOK(t, FALSE)

ParseDatetime(t) ==
  IF StrptimeOK(t, TRUE) THEN Strptime(t, TRUE) ELSE Strptime(t, FALSE)

(***************************************************************************)
(* Input rows.  csv.DictReader yields one dict per data row: its keys are  *)
(* the header's columns, and a row shorter than the header has None for    *)
(* the columns it lacks.  A cell is <<text>>, None is <<>>.                *)
(***************************************************************************)
None == <<>>
Cell(text) == <<text>>

\* row[k].strip() raises: KeyError (no such column) or AttributeError (None)
GetRaises(row, k) == k \notin DOMAIN row \/ row[k] = None

\* row[k].strip()
Field(row, k) == Strip(row[k][1])

\* row.get(k, '').strip() raises: AttributeError (the column exists, the
\* row is short)
OptRaises(row, k) == k \in DOMAIN row /\ row[k] = None

\* row.get(k, '').strip()
OptField(row, k) == IF k \in DOMAIN row THEN Strip(row[k][1]) ELSE ""

(***************************************************************************)
(* convert_trading212.py: the three row converters                         *)
(***************************************************************************)
BROKER_T212 == "T212"

\* the branch conditions of the classification, in the order of the if/elif
IsTradeAction(action) == action \in {"Market buy", "Market sell"}
IsInterestAction(action) == action = "Interest on cash"
\* a variant that takes the bare label only
IsDividendActionExact(action) == action = "Dividend"
IsDividendAction(action) == StartsWith(action, "Dividend")

Direction(action) == IF action = "Market buy" THEN "BUY" ELSE "SELL"

\* commission = commission_str if commission_str else '0'
Commission(row) ==
  IF OptField(row, "Currency conversion fee") # ""
    THEN OptField(row, "Currency conversion fee") ELSE "0"

\* a variant that adds the commission whatever the direction
TradeAmountAdds(direction, total_dec, commission_dec) ==
  DecAdd(total_dec, commission_dec)

\* amount: total + commission for a SELL, total - commission otherwise
TradeAmount(direction, total_dec, commission_dec) ==
  IF direction = "SELL" THEN DecAdd(total_dec, commission_dec)
  ELSE DecSub(total_dec, commission_dec)

\* a variant that applies the rate as a multiplier
TradePriceTimesRate(price_original, exchange_rate) ==
  DecMul(price_original, exchange_rate)

\* price = price_original / exchange_rate
TradePrice(price_original, exchange_rate) == DecDiv(price_original, exchange_rate)

\* country = isin[:2] if len(isin) >= 2 else ''
Country(isin) == IF Len(isin) >= 2 THEN SubSeq(isin, 1, 2) ELSE ""

TradeFields ==
  <<"broker", "tx_id", "direction", "symbol", "isin", "country", "currency",
    "price", "quantity", "amount", "commission", "operation_datetime",
    "settlement_date">>

\* _convert_trade_row raises (KeyError, AttributeError, ValueError,
\* InvalidOperation or DivisionByZero)
TradeRowRaises(row) ==
  \/ GetRaises(row, "Action")
  \/ GetRaises(row, "ISIN")
  \/ GetRaises(row, "Ticker")
  \/ GetRaises(row, "ID")
  \/ GetRaises(row, "Time")
  \/ ~ParseDatetimeOK(Field(row, "Time"))
  \/ GetRaises(row, "No. of shares")
  \/ GetRaises(row, "Price / share")
  \/ ~IsDecimalText(Field(row, "Price / share"))
  \/ GetRaises(row, "Total")
  \/ ~IsDecimalText(Field(row, "Total"))
  \/ GetRaises(row, "Currency (Total)")
  \/ GetRaises(row, "Exchange rate")
  \/ ~IsDecimalText(Field(row, "Exchange rate"))
  \/ DivRaises(DecimalOf(Field(row, "Price / share")),
               DecimalOf(Field(row, "Exchange rate")))
  \/ OptRaises(row, "Currency conversion fee")
  \/ ~IsDecimalText(Commission(row))

\* _convert_trade_row, for a row on which it does not raise
ConvertTradeRow(row) ==
  LET direction          == Direction(Field(row, "Action"))
      isin               == Field(row, "ISIN")
      operation_datetime == ParseDatetime(Field(row, "Time"))
      price_original     == DecimalOf(Field(row, "Price / share"))
      total              == DecimalOf(Field(row, "Total"))
      exchange_rate      == DecimalOf(Field(row, "Exchange rate"))
      commission         == Commission(row)
  IN  [broker             |-> BROKER_T212,
       tx_id              |-> Field(row, "ID"),
       direction          |-> direction,
       symbol             |-> Field(row, "Ticker"),
       isin               |-> isin,
       country            |-> Country(isin),
       currency           |-> Field(row, "Currency (Total)"),
       price              |-> DecStr(TradePrice(price_original, exchange_rate)),
       quantity           |-> Field(row, "No. of shares"),
       amount             |-> DecStr(TradeAmount(direction, total,
                                                 DecimalOf(commission))),
       commission         |-> commission,
       operation_datetime |-> DatetimeIso(operation_datetime),
       settlement_date    |-> DateIso(operation_datetime.date)]

IncomeFields ==
  <<"broker", "tx_id", "income_type", "symbol", "currency", "gross_amount",
    "wht_amount", "operation_datetime", "settlement_date">>

\* a variant that takes the id of the bunq converter
InterestTxIdSynthesized(row) ==
  Field(row, "Currency (Total)") \o "-INT:"
  \o DateIso(ParseDatetime(Field(row, "Time")).date)

\* the tx_id of a Trading 212 interest record
InterestTxId(row) == Field(row, "ID")

\* a variant that also parses Total as a Decimal
InterestRowRaisesStrict(row) ==
  \/ GetRaises(row, "Time")
  \/ ~ParseDatetimeOK(Field(row, "Time"))
  \/ GetRaises(row, "Total")
  \/ ~IsDecimalText(Field(row, "Total"))
  \/ GetRaises(row, "Currency (Total)")
  \/ GetRaises(row, "ID")

InterestRowRaises(row) ==
  \/ GetRaises(row, "Time")
  \/ ~ParseDatetimeOK(Field(row, "Time"))
  \/ GetRaises(row, "Total")
  \/ GetRaises(row, "Currency (Total)")
  \/ GetRaises(row, "ID")

\* _convert_interest_row, for a row on which it does not raise
ConvertInterestRow(row) ==
  LET operation_datetime == ParseDatetime(Field(row, "Time"))
      currency           == Field(row, "Currency (Total)")
  IN  [broker             |-> BROKER_T212,
       tx_id              |-> InterestTxId(row),
       income_type        |-> "INTEREST",
       symbol             |-> currency \o "-INT",
       currency           |-> currency,
       gross_amount       |-> Field(row, "Total"),
       wht_amount         |-> "0",
       operation_datetime |-> DatetimeIso(operation_datetime),
       settlement_date    |-> DateIso(operation_datetime.date)]

\* a variant that never converts
WhtAmountUnconverted(wht_str, wht_currency_str, currency, rate_str) ==
  IF wht_str # "" THEN DecimalOf(wht_str) ELSE DecimalOf("0")

\* the withholding tax of a dividend row, in the settlement currency
WhtAmount(wht_str, wht_currency_str, settlement_currency, exchange_rate_str) ==
  IF wht_str # ""
    THEN IF wht_currency_str # "" /\ wht_currency_str # settlement_currency
           THEN DecMul(DecimalOf(wht_str), DecimalOf(exchange_rate_str))
           ELSE DecimalOf(wht_str)
    ELSE DecimalOf("0")

DividendRowRaises(row) ==
  \/ GetRaises(row, "Time")
  \/ ~ParseDatetimeOK(Field(row, "Time"))
  \/ GetRaises(row, "Ticker")
  \/ GetRaises(row, "ID")
  \/ GetRaises(row, "Total")
  \/ GetRaises(row, "Currency (Total)")
  \/ OptRaises(row, "Withholding tax")
  \/ OptRaises(row, "Currency (Withholding tax)")
  \/ GetRaises(row, "Exchange rate")
  \/ /\ OptField(row, "Withholding tax") # ""
     /\ \/ ~IsDecimalText(OptField(row, "Withholding tax"))
        \/ ~IsDecimalText(Field(row, "Exchange rate"))

\* _convert_dividend_row, for a row on which it does not raise
ConvertDividendRow(row) ==
  LET operation_datetime  == ParseDatetime(Field(row, "Time"))
      settlement_currency == Field(row, "Currency (Total)")
  IN  [broker             |-> BROKER_T212,
       tx_id              |-> Field(row, "ID"),
       income_type        |-> "DIVIDEND",
       symbol             |-> Field(row, "Ticker"),
       currency           |-> settlement_currency,
       gross_amount       |-> Field(row, "Total"),
       wht_amount         |-> DecStr(WhtAmount(
                                OptField(row, "Withholding tax"),
                                OptField(row, "Currency (Withholding tax)"),
                                settlement_currency,
                                Field(row, "Exchange rate"))),
       operation_datetime |-> DatetimeIso(operation_datetime),
       settlement_date    |-> DateIso(operation_datetime.date)]

(***************************************************************************)
(* convert_bunq.py: the row filter and the row conversion                  *)
(***************************************************************************)
BROKER_BUNQ == "BUNQ"

\* a variant that looks for the bank's name only
IsPaydayLoose(description) == Contains(description, "bunq")

\* 'bunq Payday' in description
IsPayday(description) == Contains(description, "bunq Payday")

\* the tx_id of a bunq interest record
BunqTxId(symbol, settlement_date) == symbol \o ":" \o settlement_date

\* the body of the loop raises on a row that passed the filter
BunqRowRaises(row) ==
  \/ GetRaises(row, "Date")
  \/ ~DateOK(Field(row, "Date"))
  \/ GetRaises(row, "Amount")

\* the output_row of a row that passed the filter
ConvertBunqRow(row) ==
  LET description        == Field(row, "Description")
      operation_datetime == [date |-> DateOf(Field(row, "Date")),
                             clock |-> Midnight]
      settlement_date    == DateIso(operation_datetime.date)
      currency           == LastToken(description)
      symbol             == currency \o "-INT"
  IN  [broker             |-> BROKER_BUNQ,
       tx_id              |-> BunqTxId(symbol, settlement_date),
       income_type        |-> "INTEREST",
       symbol             |-> symbol,
       currency           |-> currency,
       gross_amount       |-> RemoveChar(Field(row, "Amount"), ","),
       wht_amount         |-> "0",
       operation_datetime |-> DatetimeIso(operation_datetime),
       settlement_date    |-> settlement_date]

\* csv.DictWriter: writeheader, then writerows; a line is the tuple of the
\* cells in the order of fieldnames = list(rows[0].keys()).
CsvLine(fieldnames, rec) == [k \in 1..Len(fieldnames) |-> rec[fieldnames[k]]]
\* a variant that calls writerow on the first row
WriteCsvFirstRow(fieldnames, rows) ==
  <<fieldnames>> \o (IF rows = <<>> THEN <<>>
                     ELSE <<CsvLine(fieldnames, rows[1])>>)
WriteCsv(fieldnames, rows) ==
  <<fieldnames>> \o [k \in 1..Len(rows) |-> CsvLine(fieldnames, rows[k])]

(***************************************************************************)
(* Inputs.  A file is a header (the set of its columns) and data rows over *)
(* that header.  Files of up to MaxRows rows are drawn from sample rows    *)
(* that cover every branch of the converters; one-row files range over     *)
(* the numeric texts up to MaxCoef and MaxFee.                             *)
(***************************************************************************)
MaxRows == 2
MaxCoef == 12
MaxFee == 3

Restrict(row, header) == [k \in (DOMAIN row) \cap header |-> row[k]]

T212Columns ==
  {"Action", "ISIN", "Ticker", "ID", "Time", "No. of shares", "Price / share",
   "Total", "Currency (Total)", "Exchange rate", "Currency conversion fee",
   "Withholding tax", "Currency (Withholding tax)"}

T212Row(action, id, time, price, total, cur, rate, fee, wht, whtcur) ==
  [k \in T212Columns |->
     CASE k = "Action" -> action
       [] k = "ISIN" -> Cell("US0378331005")
       [] k = "Ticker" -> Cell(" AAPL")
       [] k = "ID" -> id
       [] k = "Time" -> time
       [] k = "No. of shares" -> Cell("1.5")
       [] k = "Price / share" -> price
       [] k = "Total" -> total
       [] k = "Currency (Total)" -> cur
       [] k = "Exchange rate" -> rate
       [] k = "Currency conversion fee" -> fee
       [] k = "Withholding tax" -> wht
       [] k = "Currency (Withholding tax)" -> whtcur]

GoodTime == Cell("2025-07-22 10:06:57")

T212Samples ==
  { T212Row(Cell(" Market buy "), Cell(" T1 "), Cell("2025-07-22 10:06:57.358"),
            Cell("10"), Cell("100"), Cell("EUR"), Cell("0.8"), Cell("2"),
            Cell(""), Cell("")),
    T212Row(Cell("Market sell"), Cell("T2"), GoodTime,
            Cell("10"), Cell("100"), Cell("EUR"), Cell("3"), Cell("2"),
            Cell(""), Cell("")),
    T212Row(Cell("Interest on cash"), Cell("I1 "), GoodTime,
            Cell(""), Cell("0.37"), Cell("EUR"), Cell(""), Cell(""),
            Cell(""), Cell("")),
    T212Row(Cell("Interest on cash"), Cell("I2"), Cell("2025-7-2 1:02:03"),
            Cell("x"), Cell("x"), Cell("USD"), Cell("x"), Cell("x"),
            Cell("x"), Cell("x")),
    T212Row(Cell("Dividend (Ordinary)"), Cell("D1"), GoodTime,
            Cell("0.25"), Cell("20"), Cell("EUR"), Cell("0.9"), Cell(""),
            Cell("5"), Cell("USD")),
    T212Row(Cell("Dividend"), Cell(" D2"), GoodTime,
            Cell("0.25"), Cell("20"), Cell("EUR"), Cell("x"), Cell(""),
            Cell(""), Cell("USD")),
    T212Row(Cell("Dividend (Ordinary)"), Cell("D3"), GoodTime,
            Cell("0.25"), Cell("20"), Cell("EUR"), Cell("x"), Cell(""),
            Cell("5"), Cell("USD")),
    T212Row(Cell("Deposit"), Cell(""), Cell("x"),
            Cell("x"), Cell("x"), Cell(""), Cell("0"), Cell("x"),
            Cell("x"), Cell("x")),
    T212Row(Cell("market buy"), Cell("T3"), GoodTime,
            Cell("10"), Cell("100"), Cell("EUR"), Cell("1"), Cell(""),
            Cell(""), Cell("")),
    T212Row(Cell("Market buy"), Cell("T4"), Cell("22/07/2025 10:06"),
            Cell("10"), Cell("100"), Cell("EUR"), Cell("1"), Cell(""),
            Cell(""), Cell("")),
    T212Row(Cell("Market sell"), Cell("T5"), GoodTime,
            Cell("10"), Cell("100"), Cell("EUR"), Cell("0.0"), Cell(""),
            Cell(""), Cell("")),
    \* a short row: the trailing columns are None
    T212Row(Cell("Market sell"), Cell("T6"), GoodTime,
            Cell("10"), Cell("100"), Cell("EUR"), Cell("1"), None,
            None, None) }

T212Headers ==
  { T212Columns,
    T212Columns \ {"Currency conversion fee"},
    T212Columns \ {"Withholding tax", "Currency (Withholding tax)"},
    T212Columns \ {"ID"},
    T212Columns \ {"Action"} }

\* the texts of the naturals up to n, as integers and as fractions
NumTexts(n) == {NatStr(k) : k \in 0..n} \cup {"0." \o NatStr(k) : k \in 0..n}

\* a well-formed row of the given action over the full header
NumRow(action, price, total, cur, rate, fee, wht, whtcur) ==
  T212Row(Cell(action), Cell("N1"), GoodTime, Cell(price), Cell(total),
          Cell(cur), Cell(rate), Cell(fee), Cell(wht), Cell(whtcur))

T212NumRows ==
  { NumRow("Market buy", p, "100", "EUR", r, "", "", "") :
      p \in NumTexts(MaxCoef), r \in NumTexts(MaxCoef) }
  \cup
  { NumRow(a, "10", sg \o t, "EUR", "1", f, "", "") :
      a \in {"Market buy", "Market sell"}, sg \in {"", "-"},
      t \in NumTexts(MaxCoef), f \in NumTexts(MaxFee) \cup {"", " ", "-1"} }
  \cup
  { NumRow("Dividend (Ordinary)", "", "20", cur, r, "", w, wc) :
      cur \in {"EUR", "USD"}, r \in NumTexts(MaxCoef),
      w \in NumTexts(MaxFee) \cup {""}, wc \in {"", "EUR", "USD"} }

BunqColumns == {"Date", "Description", "Amount"}

BunqRow(date, description, amount) ==
  [k \in BunqColumns |->
     CASE k = "Date" -> date
       [] k = "Description" -> description
       [] k = "Amount" -> amount]

BunqSamples ==
  { BunqRow(Cell("2026-01-25"), Cell(" bunq Payday 2026-01-25 EUR "),
            Cell(" 1,234.56")),
    BunqRow(Cell(" 2026-2-5"), Cell("bunq Payday 2026-02-05 USD"), Cell("0.42")),
    BunqRow(Cell("x"), Cell("Groceries"), Cell("-12.00")),
    BunqRow(Cell("2026-01-25"), Cell("bunq payday 2026-01-25 EUR"), Cell("1")),
    BunqRow(Cell("2026-02-30"), Cell("bunq Payday 2026-02-30 EUR"), Cell("1")),
    BunqRow(Cell("2026-03-25"), Cell("Top up"), None),
    BunqRow(Cell("2026-03-25"), Cell("bunq Payday 2026-03-25 EUR"), None),
    BunqRow(Cell("2026-03-25"), None, None) }

BunqHeaders ==
  { BunqColumns, BunqColumns \ {"Amount"}, BunqColumns \ {"Description"} }

\* the sequences of up to n elements of S
RECURSIVE SeqsUpTo(_, _)
SeqsUpTo(S, n) ==
  IF n = 0 THEN {<<>>}
  ELSE LET shorter == SeqsUpTo(S, n - 1)
       IN  shorter \cup {Append(f, r) : f \in shorter, r \in S}

T212Files ==
  UNION { SeqsUpTo({Restrict(r, h) : r \in T212Samples}, MaxRows) :
            h \in T212Headers }
  \cup { <<r>> : r \in T212NumRows }

BunqFiles ==
  UNION { SeqsUpTo({Restrict(r, h) : r \in BunqSamples}, MaxRows) :
            h \in BunqHeaders }

(***************************************************************************)
(* The two command-line programs as one state machine: prog selects the    *)
(* program, pc is the position in main and in the converter it calls.      *)
(***************************************************************************)
VARIABLES
  prog,              \* "t212" or "bunq"
  infile,            \* the data rows of the input file
  pc,                \* position in the program
  i,                 \* rows the loop has completed
  trade_rows, income_rows, trades_converted, income_converted,
  output_rows, rows_converted,
  trades_file, income_file, outfile,   \* the lines written to each output
  handle,            \* state of each file handle of args
  result,            \* the converter's return value, None before it returns
  exit_code,         \* the process status, None while it runs
  stdout, stderr

vars ==
  <<prog, infile, pc, i, trade_rows, income_rows, trades_converted,
    income_converted, output_rows, rows_converted, trades_file, income_file,
    outfile, handle, result, exit_code, stdout, stderr>>

t212_locals == <<trade_rows, income_rows, trades_converted, income_converted>>
bunq_locals == <<output_rows, rows_converted>>
files == <<trades_file, income_file, outfile>>
env == <<prog, infile, handle, exit_code, stdout, stderr>>

Handles(p) ==
  IF p = "t212" THEN {"input", "trades_output", "income_output"}
  ELSE {"input", "output"}

Init ==
  /\ prog \in {"t212", "bunq"}
  /\ infile \in (IF prog = "t212" THEN T212Files ELSE BunqFiles)
  /\ pc = "start"
  /\ i = 0
  /\ trade_rows = <<>> /\ income_rows = <<>>
  /\ trades_converted = 0 /\ income_converted = 0
  /\ output_rows = <<>> /\ rows_converted = 0
  /\ trades_file = <<>> /\ income_file = <<>> /\ outfile = <<>>
  /\ handle = [h \in Handles(prog) |-> "unopened"]
  /\ result = None
  /\ exit_code = None
  /\ stdout = <<>> /\ stderr = <<>>

\* parser.parse_args(): argparse.FileType opens every file argument; main
\* then calls the converter, whose locals are initialised.
ParseArgs ==
  /\ pc = "start"
  /\ handle' = [h \in Handles(prog) |-> "open"]
  /\ pc' = "loop"
  /\ UNCHANGED <<prog, infile, i, t212_locals, bunq_locals, files, result,
                 exit_code, stdout, stderr>>

(***************************************************************************)
(* convert_trading212                                                      *)
(***************************************************************************)
\* the if/elif chain of the loop body: the branch an action text takes
Branch(action) ==
  IF IsTradeAction(action) THEN "trade"
  ELSE IF IsInterestAction(action) THEN "interest"
  ELSE IF IsDividendAction(action) THEN "dividend"
  ELSE "drop"

\* the loop body raises on this row
T212RowRaises(row) ==
  \/ GetRaises(row, "Action")
  \/ /\ Branch(Field(row, "Action")) = "trade"
     /\ TradeRowRaises(row)
  \/ /\ Branch(Field(row, "Action")) = "interest"
     /\ InterestRowRaises(row)
  \/ /\ Branch(Field(row, "Action")) = "dividend"
     /\ DividendRowRaises(row)

\* The reader has another row and the loop body takes the given branch on
\* it without raising.
T212Takes(branch) ==
  /\ prog = "t212"
  /\ pc = "loop"
  /\ i < Len(infile)
  /\ ~T212RowRaises(infile[i + 1])
  /\ Branch(Field(infile[i + 1], "Action")) = branch

TradeStep ==
  /\ T212Takes("trade")
  /\ trade_rows' = Append(trade_rows, ConvertTradeRow(infile[i + 1]))
  /\ trades_converted' = trades_converted + 1
  /\ i' = i + 1
  /\ UNCHANGED <<env, pc, income_rows, income_converted, bunq_locals, files,
                 result>>

InterestStep ==
  /\ T212Takes("interest")
  /\ income_rows' = Append(income_rows, ConvertInterestRow(infile[i + 1]))
  /\ income_converted' = income_converted + 1
  /\ i' = i + 1
  /\ UNCHANGED <<env, pc, trade_rows, trades_converted, bunq_locals, files,
                 result>>

DividendStep ==
  /\ T212Takes("dividend")
  /\ income_rows' = Append(income_rows, ConvertDividendRow(infile[i + 1]))
  /\ income_converted' = income_converted + 1
  /\ i' = i + 1
  /\ UNCHANGED <<env, pc, trade_rows, trades_converted, bunq_locals, files,
                 result>>

\* no branch of the chain matches: the row is passed over
DropStep ==
  /\ T212Takes("drop")
  /\ i' = i + 1
  /\ UNCHANGED <<env, pc, t212_locals, bunq_locals, files, result>>

\* the loop body raises: the exception leaves convert_trading212
T212Raise ==
  /\ prog = "t212"
  /\ pc = "loop"
  /\ i < Len(infile)
  /\ T212RowRaises(infile[i + 1]) = TRUE
  /\ pc' = "raised"
  /\ UNCHANGED <<env, i, t212_locals, bunq_locals, files, result>>

\* a variant without the emptiness test
WrittenAlways(fieldnames, rows) == WriteCsv(fieldnames, rows)

\* the lines a stream's writer puts into its file: none for no rows
Written(fieldnames, rows) ==
  IF rows # <<>> THEN WriteCsv(fieldnames, rows) ELSE <<>>

\* the reader is exhausted; if trade_rows: _write_trades_csv(...)
WriteTrades ==
  /\ prog = "t212"
  /\ pc = "loop"
  /\ i = Len(infile)
  /\ trades_file' = trades_file \o Written(TradeFields, trade_rows)
  /\ pc' = "write_income"
  /\ UNCHANGED <<env, i, t212_locals, bunq_locals, income_file, outfile,
                 result>>

\* if income_rows: _write_income_csv(...)
WriteIncome ==
  /\ prog = "t212"
  /\ pc = "write_income"
  /\ income_file' = income_file \o Written(IncomeFields, income_rows)
  /\ pc' = "return"
  /\ UNCHANGED <<env, i, t212_locals, bunq_locals, trades_file, outfile,
                 result>>

\* return trades_converted, income_converted
T212Return ==
  /\ prog = "t212"
  /\ pc = "return"
  /\ result' = <<trades_converted, income_converted>>
  /\ pc' = "returned"
  /\ UNCHANGED <<env, i, t212_locals, bunq_locals, files>>

\* What main of convert_trading212.py does to the handles before it ends:
\* nothing, it has no close() and no with/finally.
T212MainHandles(h) == h

\* main prints the summary and returns
T212Report ==
  /\ prog = "t212"
  /\ pc = "returned"
  /\ stdout' = stdout \o
       <<"Converted " \o NatStr(result[1]) \o " trade(s)",
         "Trades written to: trades_output",
         "Converted " \o NatStr(result[2]) \o " income record(s)",
         "Income written to: income_output">>
  /\ handle' = T212MainHandles(handle)
  /\ exit_code' = <<0>>
  /\ pc' = "exited"
  /\ UNCHANGED <<prog, infile, i, t212_locals, bunq_locals, files, result,
                 stderr>>

\* main has no try: the exception ends the program with a traceback
T212Uncaught ==
  /\ prog = "t212"
  /\ pc = "raised"
  /\ stderr' = Append(stderr, "Traceback")
  /\ handle' = T212MainHandles(handle)
  /\ exit_code' = <<1>>
  /\ pc' = "exited"
  /\ UNCHANGED <<prog, infile, i, t212_locals, bunq_locals, files, result,
                 stdout>>

(***************************************************************************)
(* convert_bunq                                                            *)
(***************************************************************************)
\* the row passes "if 'bunq Payday' not in description: continue"
BunqQualifies(row) == IsPayday(Field(row, "Description"))

BunqLoopRaises(row) ==
  \/ GetRaises(row, "Description")
  \/ /\ BunqQualifies(row)
     /\ BunqRowRaises(row)

BunqSkip ==
  /\ prog = "bunq"
  /\ pc = "loop"
  /\ i < Len(infile)
  /\ ~BunqLoopRaises(infile[i + 1])
  /\ ~BunqQualifies(infile[i + 1])
  /\ i' = i + 1
  /\ UNCHANGED <<env, pc, t212_locals, bunq_locals, files, result>>

BunqConvert ==
  /\ prog = "bunq"
  /\ pc = "loop"
  /\ i < Len(infile)
  /\ ~BunqLoopRaises(infile[i + 1])
  /\ BunqQualifies(infile[i + 1])
  /\ output_rows' = Append(output_rows, ConvertBunqRow(infile[i + 1]))
  /\ rows_converted' = rows_converted + 1
  /\ i' = i + 1
  /\ UNCHANGED <<env, pc, t212_locals, files, result>>

BunqRaise ==
  /\ prog = "bunq"
  /\ pc = "loop"
  /\ i < Len(infile)
  /\ BunqLoopRaises(infile[i + 1]) = TRUE
  /\ pc' = "raised"
  /\ UNCHANGED <<env, i, t212_locals, bunq_locals, files, result>>

\* the reader is exhausted; if output_rows: header and rows are written
BunqWrite ==
  /\ prog = "bunq"
  /\ pc = "loop"
  /\ i = Len(infile)
  /\ outfile' = outfile \o Written(IncomeFields, output_rows)
  /\ pc' = "return"
  /\ UNCHANGED <<env, i, t212_locals, bunq_locals, trades_file, income_file,
                 result>>

\* return rows_converted
BunqReturn ==
  /\ prog = "bunq"
  /\ pc = "return"
  /\ result' = <<rows_converted>>
  /\ pc' = "returned"
  /\ UNCHANGED <<env, i, t212_locals, bunq_locals, files>>

\* try: the two prints after the call
BunqReport ==
  /\ prog = "bunq"
  /\ pc = "returned"
  /\ stdout' = stdout \o
       <<"Converted " \o NatStr(result[1]) \o " interest payment(s)",
         "Output written to: output">>
  /\ pc' = "finally"
  /\ UNCHANGED <<prog, infile, i, t212_locals, bunq_locals, files, result,
                 handle, exit_code, stderr>>

\* except Exception: the message goes to stderr, sys.exit(1) is raised
BunqExcept ==
  /\ prog = "bunq"
  /\ pc = "raised"
  /\ stderr' = Append(stderr, "Error")
  /\ pc' = "finally_exit"
  /\ UNCHANGED <<prog, infile, i, t212_locals, bunq_locals, files, result,
                 handle, exit_code, stdout>>

\* What the finally clause of main of convert_bunq.py does to the handles
BunqMainHandles(h) == [x \in DOMAIN h |-> "closed"]

\* finally: both files are closed; the program ends with status 0, or 1
\* when SystemExit is passing through
BunqFinally ==
  /\ prog = "bunq"
  /\ pc \in {"finally", "finally_exit"}
  /\ handle' = BunqMainHandles(handle)
  /\ exit_code' = IF pc = "finally" THEN <<0>> ELSE <<1>>
  /\ pc' = "exited"
  /\ UNCHANGED <<prog, infile, i, t212_locals, bunq_locals, files, result,
                 stdout, stderr>>

Next ==
  \/ ParseArgs
  \/ TradeStep
  \/ InterestStep
  \/ DividendStep
  \/ DropStep
  \/ T212Raise
  \/ WriteTrades
  \/ WriteIncome
  \/ T212Return
  \/ T212Report
  \/ T212Uncaught
  \/ BunqSkip
  \/ BunqConvert
  \/ BunqRaise
  \/ BunqWrite
  \/ BunqReturn
  \/ BunqReport
  \/ BunqExcept
  \/ BunqFinally

Spec == Init /\ [][Next]_vars

(***************************************************************************)
(* Properties.  The rows the loop has completed are Done; the k-th record  *)
(* of a stream comes from the k-th completed row of the stream's classes.  *)
(***************************************************************************)
Done == SubSeq(infile, 1, i)

\* the conversion was aborted by an exception
Aborted ==
  \/ pc \in {"raised", "finally_exit"}
  \/ pc = "exited" /\ result = None

\* the conversion returned
Succeeded == result # None

HasText(row, k) == k \in DOMAIN row /\ row[k] # None
TextOf(row, k) == Strip(row[k][1])

\* the class the specification gives a row, by its trimmed Action
ClaimClass(row) ==
  LET a == TextOf(row, "Action")
  IN  IF a = "Market buy" THEN "BUY"
      ELSE IF a = "Market sell" THEN "SELL"
      ELSE IF a = "Interest on cash" THEN "INTEREST"
      ELSE IF Len(a) >= 8 /\ SubSeq(a, 1, 8) = "Dividend" THEN "DIVIDEND"
      ELSE "NONE"

Classes == [k \in 1..i |-> ClaimClass(infile[k])]
IsTradeClass(c) == c \in {"BUY", "SELL"}
IsIncomeClass(c) == c \in {"INTEREST", "DIVIDEND"}
TradeSrc == SelectSeq(Done, LAMBDA r : IsTradeClass(ClaimClass(r)))
IncomeSrc == SelectSeq(Done, LAMBDA r : IsIncomeClass(ClaimClass(r)))

\* C1: every completed row of convert_trading212 is classified by its
\* trimmed Action: 'Market buy'/'Market sell' give one trade record of
\* direction BUY/SELL, 'Interest on cash' one INTEREST income record, an
\* Action beginning with 'Dividend' one DIVIDEND income record, and any
\* other Action gives no record and never raises, whatever its other fields.
C1_Classification ==
  prog = "t212" =>
    /\ [k \in 1..Len(trade_rows) |-> trade_rows[k].direction]
         = SelectSeq(Classes, IsTradeClass)
    /\ [k \in 1..Len(income_rows) |-> income_rows[k].income_type]
         = SelectSeq(Classes, IsIncomeClass)
    /\ (Aborted /\ HasText(infile[i + 1], "Action"))
         => ClaimClass(infile[i + 1]) # "NONE"

\* a run that classified a trade and an income row, and one that dropped a
\* row whose other fields are junk
C1_Witness ==
  /\ prog = "t212"
  /\ pc = "exited"
  /\ Succeeded
  /\ i = 2
  /\ \/ Len(trade_rows) = 1 /\ Len(income_rows) = 1
     \/ /\ Len(trade_rows) + Len(income_rows) = 1
        /\ \E k \in 1..2 : /\ ClaimClass(infile[k]) = "NONE"
                           /\ infile[k]["Time"] = Cell("x")

\* the value of a decimal text in units of 10^-4
Units(text) == Scaled(DecimalOf(text), -4)

\* the commission the specification gives a trade row
FeeOf(row) ==
  IF "Currency conversion fee" \in DOMAIN row
     /\ TextOf(row, "Currency conversion fee") # ""
    THEN TextOf(row, "Currency conversion fee") ELSE "0"

\* C2: every trade record has amount = Total + commission for a SELL and
\* Total - commission for a BUY, commission being the 'Currency conversion
\* fee' when present and non-empty and 0 otherwise.
C2_TradeAmount ==
  prog = "t212" =>
    \A k \in 1..Len(trade_rows) :
      /\ k <= Len(TradeSrc)
      /\ LET row == TradeSrc[k]
             rec == trade_rows[k]
             fee == FeeOf(row)
         IN  /\ rec.commission = fee
             /\ rec.direction \in {"BUY", "SELL"}
             /\ Units(rec.amount) =
                  IF rec.direction = "SELL"
                    THEN Units(TextOf(row, "Total")) + Units(fee)
                    ELSE Units(TextOf(row, "Total")) - Units(fee)

\* Total=100 with commission=2: 98 for the BUY, 102 for the SELL
C2_Witness ==
  /\ prog = "t212"
  /\ Len(trade_rows) = 2
  /\ trade_rows[1].direction = "BUY" /\ trade_rows[1].amount = "98"
  /\ trade_rows[2].direction = "SELL" /\ trade_rows[2].amount = "102"
  /\ infile[1]["Total"] = Cell("100")
  /\ HasText(infile[2], "Currency conversion fee")
  /\ infile[2]["Currency conversion fee"] = Cell("2")

\* C3: every dividend record has wht_amount 0 when 'Withholding tax' is
\* empty, Withholding tax * Exchange rate when 'Currency (Withholding tax)'
\* is present and differs from 'Currency (Total)', and the Withholding tax
\* unchanged otherwise.
C3_DividendWht ==
  prog = "t212" =>
    \A k \in 1..Len(income_rows) :
      income_rows[k].income_type = "DIVIDEND" =>
        /\ k <= Len(IncomeSrc)
        /\ LET row    == IncomeSrc[k]
               rec    == income_rows[k]
               wht    == IF "Withholding tax" \in DOMAIN row
                           THEN TextOf(row, "Withholding tax") ELSE ""
               whtcur == IF "Currency (Withholding tax)" \in DOMAIN row
                           THEN TextOf(row, "Currency (Withholding tax)")
                           ELSE ""
               got    == Scaled(DecimalOf(rec.wht_amount), -3)
           IN  IF wht = "" THEN got = 0
               ELSE IF whtcur # "" /\ whtcur # TextOf(row, "Currency (Total)")
                 THEN got = Scaled(DecimalOf(wht), -1)
                            * Scaled(DecimalOf(TextOf(row, "Exchange rate")), -2)
               ELSE got = Scaled(DecimalOf(wht), -3)

\* 5 USD withheld, settlement in EUR at 0.9, gives 4.5
C3_Witness ==
  /\ prog = "t212"
  /\ Len(income_rows) >= 1
  /\ income_rows[1].income_type = "DIVIDEND"
  /\ income_rows[1].wht_amount = "4.5"
  /\ HasText(infile[1], "Withholding tax")
  /\ infile[1]["Withholding tax"] = Cell("5")
  /\ infile[1]["Currency (Withholding tax)"] = Cell("USD")
  /\ infile[1]["Currency (Total)"] = Cell("EUR")
  /\ infile[1]["Exchange rate"] = Cell("0.9")

(***************************************************************************)
(* Arithmetic on digit strings of any length, to compare a price of up to  *)
(* Prec digits with the quotient it stands for.                            *)
(***************************************************************************)
RECURSIVE MulCarry(_, _, _)
MulCarry(s, f, carry) ==
  IF s = "" THEN (IF carry = 0 THEN "" ELSE NatStr(carry))
  ELSE LET v == DigitVal(Char(s, Len(s))) * f + carry
       IN  MulCarry(SubSeq(s, 1, Len(s) - 1), f, v \div 10) \o DigitChar(v % 10)

\* digits * f, for a small factor f
MulStr(s, f) == StripZeros(MulCarry(s, f, 0))

RECURSIVE AddCarry(_, _, _)
AddCarry(a, b, carry) ==
  IF a = "" THEN (IF carry = 0 THEN "" ELSE "1")
  ELSE LET v == DigitVal(Char(a, Len(a))) + DigitVal(Char(b, Len(b))) + carry
       IN  AddCarry(SubSeq(a, 1, Len(a) - 1), SubSeq(b, 1, Len(b) - 1),
                    v \div 10) \o DigitChar(v % 10)

\* a + b
AddStr(a, b) ==
  StripZeros(AddCarry(Zeros(Len(b) - Len(a)) \o a, Zeros(Len(a) - Len(b)) \o b, 0))

RECURSIVE LeqSameLen(_, _)
LeqSameLen(a, b) ==
  IF a = "" THEN TRUE
  ELSE IF Char(a, 1) # Char(b, 1) THEN DigitVal(Char(a, 1)) < DigitVal(Char(b, 1))
  ELSE LeqSameLen(SubSeq(a, 2, Len(a)), SubSeq(b, 2, Len(b)))

\* a <= b, for digit strings without leading zeros
LeqStr(a, b) == Len(a) < Len(b) \/ (Len(a) = Len(b) /\ LeqSameLen(a, b))

RECURSIVE GCD(_, _)
GCD(a, b) == IF b = 0 THEN a ELSE GCD(b, a % b)

RECURSIVE OnlyTwoFive(_)
OnlyTwoFive(d) ==
  IF d % 2 = 0 THEN OnlyTwoFive(d \div 2)
  ELSE IF d % 5 = 0 THEN OnlyTwoFive(d \div 5)
  ELSE d = 1

\* the least k with d dividing 10^k, for a d that OnlyTwoFive
RECURSIVE TenPower(_, _)
TenPower(d, k) == IF Pow10(k) % d = 0 THEN k ELSE TenPower(d, k + 1)

RECURSIVE NoTrailingZeros(_)
NoTrailingZeros(s) ==
  IF Len(s) > 1 /\ Char(s, Len(s)) = "0"
    THEN NoTrailingZeros(SubSeq(s, 1, Len(s) - 1)) ELSE s

\* the quotient n / d of two naturals is a decimal of at most Prec
\* significant digits
Representable(n, d) ==
  LET g == GCD(n, d)
      k == TenPower(d \div g, 0)
  IN  \/ n = 0
      \/ /\ OnlyTwoFive(d \div g)
         /\ Len(NoTrailingZeros(NatStr((n \div g) * (Pow10(k) \div (d \div g)))))
              <= Prec

\* f * price * rate and f * original as integers in a common unit, for
\* the Decimals P (price), O (original price) and R (rate)
Product(P, O, R, f) ==
  StripZeros(MulStr(P.int, f * StrNat(R.int))
             \o Zeros(P.exp + R.exp - Min(P.exp + R.exp, O.exp)))
Original(P, O, R, f) ==
  StripZeros(MulStr(O.int, f) \o Zeros(O.exp - Min(P.exp + R.exp, O.exp)))
\* rate * one unit in the last place of price, in the same unit
RateUlp(P, O, R) ==
  StripZeros(R.int \o Zeros(P.exp + R.exp - Min(P.exp + R.exp, O.exp)))

\* price * rate = original: the price is the exact quotient
PriceExact(P, O, R) == Product(P, O, R, 1) = Original(P, O, R, 1)

\* |price - original / rate| is at most half a unit in the last place
PriceRounded(P, O, R) ==
  LET prod == Product(P, O, R, 2)
      orig == Original(P, O, R, 2)
      ulp  == RateUlp(P, O, R)
  IN  /\ LeqStr(prod, AddStr(orig, ulp))
      /\ LeqStr(orig, AddStr(prod, ulp))

\* C4 as claimed: every trade record's price is exactly 'Price / share'
\* divided by 'Exchange rate', with no rounding error, for every pair of
\* decimal inputs with a non-zero exchange rate.
C4_PriceExact ==
  prog = "t212" =>
    LET src == TradeSrc
    IN  \A k \in 1..Len(trade_rows) :
          /\ k <= Len(src)
          /\ PriceExact(DecimalOf(trade_rows[k].price),
                        DecimalOf(TextOf(src[k], "Price / share")),
                        DecimalOf(TextOf(src[k], "Exchange rate")))

\* C4 as amended: the price is 'Price / share' divided by 'Exchange rate'
\* rounded half-even to 28 significant digits: it is the exact quotient
\* whenever the quotient has at most 28 significant digits (10 / 0.8 gives
\* "12.5"), and otherwise a 28-digit decimal within half a unit in its last
\* place of the quotient (10 / 3 gives 3.333333333333333333333333333).
C4_PriceRoundedToPrec ==
  prog = "t212" =>
    LET src == TradeSrc
    IN  \A k \in 1..Len(trade_rows) :
          /\ k <= Len(src)
          /\ LET P == DecimalOf(trade_rows[k].price)
                 O == DecimalOf(TextOf(src[k], "Price / share"))
                 R == DecimalOf(TextOf(src[k], "Exchange rate"))
                 exact == PriceExact(P, O, R)
             IN  /\ PriceRounded(P, O, R)
                 /\ IF Representable(StrNat(O.int), StrNat(R.int))
                      THEN exact
                      ELSE ~exact /\ Len(P.int) = Prec

\* 10 / 0.8 is the exact "12.5"; 10 / 3 is rounded to 28 digits
C4_Witness ==
  /\ prog = "t212"
  /\ Len(trade_rows) = 2
  /\ infile[1]["Price / share"] = Cell("10")
  /\ infile[1]["Exchange rate"] = Cell("0.8")
  /\ trade_rows[1].price = "12.5"
  /\ infile[2]["Price / share"] = Cell("10")
  /\ infile[2]["Exchange rate"] = Cell("3")
  /\ trade_rows[2].price = "3.333333333333333333333333333"

\* the records in an output file: its lines after the header
RecordsIn(file) == IF file = <<>> THEN 0 ELSE Len(file) - 1

\* the row carries the interest-payday marker in its trimmed Description
BunqMarked(row) == Contains(TextOf(row, "Description"), "bunq Payday")
BunqSrc == SelectSeq(Done, BunqMarked)

\* C5: in convert_bunq a row without the interest-payday marker never
\* produces a record, each completed row with it produces exactly one
\* INTEREST record, in input order, and the returned count is the number
\* of records emitted.
C5_BunqFilter ==
  prog = "bunq" =>
    LET src == BunqSrc
    IN  /\ Len(output_rows) = Len(src)
        /\ \A k \in 1..Len(output_rows) :
             /\ k <= Len(src)
             /\ output_rows[k].income_type = "INTEREST"
             /\ output_rows[k].currency
                  = LastToken(TextOf(src[k], "Description"))
        /\ rows_converted = Len(output_rows)
        /\ Succeeded => /\ result = <<Len(output_rows)>>
                        /\ RecordsIn(outfile) = result[1]

\* a row without the marker was passed over and a row with it converted
C5_Witness ==
  /\ prog = "bunq"
  /\ pc = "exited"
  /\ i = 2
  /\ ~BunqMarked(infile[1])
  /\ BunqMarked(infile[2])
  /\ result = <<1>>
  /\ Len(outfile) = 2

\* the file of a stream is empty, or one header and then every record
StreamOK(file, rows, fieldnames) ==
  /\ rows = <<>> => file = <<>>
  /\ file # <<>> =>
       /\ Len(file) = 1 + Len(rows)
       /\ file[1] = fieldnames
       /\ \A k \in 1..Len(rows) :
            /\ file[k + 1] = [j \in 1..Len(fieldnames) |-> rows[k][fieldnames[j]]]
            /\ file[k + 1] # fieldnames
  /\ (Succeeded /\ rows # <<>>) => file # <<>>

\* C6: each output stream is written to only if it has at least one
\* record, independently of the other stream: with no records nothing, not
\* even a header, is written; with records exactly one header and then all
\* of its records.
C6_StreamsWrittenIfNonEmpty ==
  /\ StreamOK(trades_file, trade_rows, TradeFields)
  /\ StreamOK(income_file, income_rows, IncomeFields)
  /\ StreamOK(outfile, output_rows, IncomeFields)

\* the trade stream stayed empty while the income stream was written
C6_Witness ==
  /\ prog = "t212"
  /\ pc = "exited"
  /\ Succeeded
  /\ trades_file = <<>>
  /\ Len(income_file) = 3

\* the columns each class of row is read from, and the ones it may lack
ReadColumns(class) ==
  CASE class \in {"BUY", "SELL"} ->
         {"ISIN", "Ticker", "ID", "Time", "No. of shares", "Price / share",
          "Total", "Currency (Total)", "Exchange rate"}
    [] class = "INTEREST" -> {"Time", "Total", "Currency (Total)", "ID"}
    [] class = "DIVIDEND" ->
         {"Time", "Ticker", "ID", "Total", "Currency (Total)", "Exchange rate"}
    [] class = "NONE" -> {}
OptionalColumns(class) ==
  CASE class \in {"BUY", "SELL"} -> {"Currency conversion fee"}
    [] class = "DIVIDEND" -> {"Withholding tax", "Currency (Withholding tax)"}
    [] OTHER -> {}

\* a column the row's class reads is missing from the row
MissingField(row, class) ==
  \/ \E c \in ReadColumns(class) : ~HasText(row, c)
  \/ \E c \in OptionalColumns(class) : c \in DOMAIN row /\ row[c] = None

\* a text the row's class parses does not parse
Unparsable(row, class) ==
  CASE class \in {"BUY", "SELL"} ->
         \/ ~ParseDatetimeOK(TextOf(row, "Time"))
         \/ ~IsDecimalText(TextOf(row, "Price / share"))
         \/ ~IsDecimalText(TextOf(row, "Total"))
         \/ ~IsDecimalText(TextOf(row, "Exchange rate"))
         \/ ~IsDecimalText(FeeOf(row))
         \/ IsZero(DecimalOf(TextOf(row, "Exchange rate")))
    [] class = "INTEREST" -> ~ParseDatetimeOK(TextOf(row, "Time"))
    [] class = "DIVIDEND" ->
         \/ ~ParseDatetimeOK(TextOf(row, "Time"))
         \/ /\ "Withholding tax" \in DOMAIN row
            /\ TextOf(row, "Withholding tax") # ""
            /\ \/ ~IsDecimalText(TextOf(row, "Withholding tax"))
               \/ ~IsDecimalText(TextOf(row, "Exchange rate"))
    [] class = "NONE" -> FALSE

\* a qualifying row with a field missing or unparsable
BadRow(row) ==
  IF prog = "t212"
    THEN \/ ~HasText(row, "Action")
         \/ MissingField(row, ClaimClass(row))
         \/ Unparsable(row, ClaimClass(row))
    ELSE \/ ~HasText(row, "Description")
         \/ /\ BunqMarked(row)
            /\ \/ ~HasText(row, "Date")
               \/ ~HasText(row, "Amount")
               \/ ~DateOK(TextOf(row, "Date"))

\* C7: conversion is fail-fast and all-or-nothing in both converters: no
\* row with a missing or unparsable field is ever passed, the first such
\* row aborts the conversion, no later row is processed, no counts are
\* returned, and nothing has been written to any output stream.
C7_FailFast ==
  /\ \A k \in 1..i : ~BadRow(infile[k])
  /\ Aborted =>
       /\ i < Len(infile)
       /\ BadRow(infile[i + 1])
       /\ Len(trade_rows) + Len(income_rows) + Len(output_rows) <= i
       /\ result = None
       /\ stdout = <<>>
       /\ trades_file = <<>> /\ income_file = <<>> /\ outfile = <<>>

\* a trade was buffered, the second row aborted, nothing was written
C7_Witness ==
  /\ prog = "t212"
  /\ pc = "exited"
  /\ Aborted
  /\ i = 1
  /\ Len(infile) = 2
  /\ Len(trade_rows) = 1
  /\ trades_file = <<>>
  /\ exit_code = <<1>>

\* C8: in both programs the file handles are acquired once at the start
\* and main has released every one of them on every exit path.
C8_HandlesReleased ==
  /\ pc # "start" => \A h \in DOMAIN handle : handle[h] # "unopened"
  /\ pc = "exited" => \A h \in DOMAIN handle : handle[h] = "closed"

\* tx_id is '{symbol}:{settlement_date}'
Synthesized(rec) == rec.tx_id = rec.symbol \o ":" \o rec.settlement_date

\* C9 as claimed: every interest record, of either converter, has tx_id
\* '{symbol}:{settlement_date}', and every trade and dividend record
\* carries the trimmed ID of its source row.
C9_TxIdAsClaimed ==
  LET tsrc == TradeSrc
      isrc == IncomeSrc
  IN  /\ \A k \in 1..Len(output_rows) : Synthesized(output_rows[k])
      /\ \A k \in 1..Len(trade_rows) :
           trade_rows[k].tx_id = TextOf(tsrc[k], "ID")
      /\ \A k \in 1..Len(income_rows) :
           IF income_rows[k].income_type = "INTEREST"
             THEN Synthesized(income_rows[k])
             ELSE income_rows[k].tx_id = TextOf(isrc[k], "ID")

\* C9 as amended: only the interest records of convert_bunq have a
\* generated tx_id, '{symbol}:{settlement_date}'; every record of
\* convert_trading212 (trade, dividend and interest alike) carries the
\* trimmed ID of its source row.
C9_TxIdBySource ==
  LET tsrc == TradeSrc
      isrc == IncomeSrc
  IN  /\ \A k \in 1..Len(output_rows) :
           /\ output_rows[k].income_type = "INTEREST"
           /\ Synthesized(output_rows[k])
      /\ \A k \in 1..Len(trade_rows) :
           trade_rows[k].tx_id = TextOf(tsrc[k], "ID")
      /\ \A k \in 1..Len(income_rows) :
           income_rows[k].tx_id = TextOf(isrc[k], "ID")

\* a Trading 212 interest record with the ID of its row, trimmed
C9_Witness ==
  /\ prog = "t212"
  /\ Len(income_rows) >= 1
  /\ income_rows[1].income_type = "INTEREST"
  /\ HasText(infile[1], "ID")
  /\ infile[1]["ID"] = Cell("I1 ")
  /\ income_rows[1].tx_id = "I1"
  /\ income_rows[1].symbol = "EUR-INT"

\* C10: in convert_trading212 the counters equal the lengths of the
\* accumulated streams after every prefix of the input, the two together
\* never exceed the rows read, each stream keeps the order of its input
\* rows, and the returned pair is the number of records written to each
\* stream.
C10_Counters ==
  prog = "t212" =>
    LET tsrc == TradeSrc
        isrc == IncomeSrc
    IN  /\ trades_converted = Len(trade_rows)
        /\ income_converted = Len(income_rows)
        /\ trades_converted + income_converted <= i
        /\ Len(trade_rows) = Len(tsrc)
        /\ Len(income_rows) = Len(isrc)
        /\ \A k \in 1..Len(trade_rows) :
             trade_rows[k].tx_id = TextOf(tsrc[k], "ID")
        /\ \A k \in 1..Len(income_rows) :
             income_rows[k].tx_id = TextOf(isrc[k], "ID")
        /\ Succeeded =>
             result = <<RecordsIn(trades_file), RecordsIn(income_file)>>

\* two trades in input order, both written and counted
C10_Witness ==
  /\ prog = "t212"
  /\ pc = "exited"
  /\ result = <<2, 0>>
  /\ trade_rows[1].tx_id = "T1"
  /\ trade_rows[2].tx_id = "T2"
  /\ Len(trades_file) = 3

=============================================================================
